---- MODULE Spec2Model ----
(***************************************************************************)
(* A model of the request-authorization and resilience layer of            *)
(* okta/client.go: the request executor (APIClient.do, doWithRetries,      *)
(* oktaBackoff), the response cache policy, the rate-limit gate, and the   *)
(* token-based authorization strategies with the DPoP handshake.           *)
(*                                                                         *)
(* Time is counted in whole seconds (the unit of Get429BackoffTime, of     *)
(* RateLimit.Reset and of expires_in).  The executor keeps every quantity  *)
(* of time as the number of seconds left until its instant, and Tick lets  *)
(* one second pass for all of them; the headers of a response are relative *)
(* to the client's clock at its receipt, and the Date header is never      *)
(* later than that clock.  The token cache reads a clock of its own.       *)
(*                                                                         *)
(* The specifications of the module:                                       *)
(*   Spec      the request executor: one caller issuing call after call on *)
(*             one client, against a transport that may fail, with         *)
(*             cancellation;                                               *)
(*   SpecConc  the request executor called by two goroutines at once,      *)
(*             against a server that answers every request;                *)
(*   SpecAuth  Authorize of the strategies on one token cache, one caller  *)
(*             at a time;                                                  *)
(*   SpecAuthConc  Authorize of PrivateKeyAuth called by two goroutines;   *)
(*   SpecDpop  generateDpopJWT applied to access tokens;                   *)
(*   SpecRetry the request executor against a server that throttles, with  *)
(*             one more retry configured than Spec draws;                  *)
(*   SpecCall  one whole outbound call: prepareRequest with Authorize,     *)
(*             then do, one caller in PrivateKey or SSWS mode.             *)
(***************************************************************************)
EXTENDS Integers, Sequences, FiniteSets, TLC

VARIABLES
    env,        \* the environment of the client: who calls it, what the transport does
    cfg,        \* Configuration.Okta.Client.RateLimit: Enable, MaxRetries, MaxBackoff
    cache,      \* APIClient.cache: cache key -> stored response, or NoResp
    freshcache, \* APIClient.freshcache
    rateLimit,  \* APIClient.rateLimit: NoLimit (nil) or a RateLimit record
    call,       \* per outbound call: position in do/doWithRetries and its locals
    bypasses,   \* history: calls that took the refresh branch since the last RefreshNext
    mode,       \* Configuration.Okta.Client.AuthorizationMode
    clock,      \* the wall clock of the token cache, in seconds
    tokenCache, \* APIClient.tokenCache: the three go-cache items
    nextX,      \* token exchanges started so far
    auth        \* per Authorize call: position and locals

execVars == <<cache, freshcache, rateLimit, call, bypasses>>

authVars == <<mode, clock, tokenCache, nextX, auth>>

vars == <<env, cfg, execVars, authVars>>

----------------------------------------------------------------------------
(* Bounds of the model. *)

\* MaxRetries is drawn from 0..MaxMaxRetries.
MaxMaxRetries == 1

\* A call stops dispatching after this many dispatches (the code has no such
\* cap on the network-error path; see NextBackOff).
MaxDispatch == MaxMaxRetries + 2

\* The token cache's clock stops advancing here.
MaxClock == 2

\* Token exchanges (token-cache misses) per behaviour; each further caller of
\* the environment adds one.
MaxExchanges == 1

\* Token-endpoint requests one exchange may send in the model (the code has
\* no cap on the use_dpop_nonce round trips).
MaxTokReqs == 3

\* Authorize calls made on one pending request.
MaxAuthorize == 2

\* The access tokens handed to generateDpopJWT have at most this many
\* characters.
MaxTokenLen == 3

Calls == {"c1", "c2"}

Methods == {"GET", "POST"}

URLs == {"u1"}

\* Configured RateLimit.MaxBackoff values, in seconds.
MaxBackoffValues == {2}

\* X-Rate-Limit-Reset minus Date, in seconds, as the server may send it.
ResetOffsets == {-2, 0, 2}

\* How many seconds the Date header may lag the client's clock.
DateLags == {0, 1}

RemainingValues == {0, 1}

LimitValues == {2}

----------------------------------------------------------------------------
(* Values. *)

Min(a, b) == IF a < b THEN a ELSE b

Max(a, b) == IF a < b THEN b ELSE a

NoResp == [kind |-> "none", status |-> 0, hdrOK |-> FALSE, bad |-> "none",
           date |-> 0, reset |-> 0, limit |-> 0, remaining |-> 0]

\* A *http.Response as far as the executor reads it: the status, whether the
\* rate-limit headers parse (hdrOK; if not, bad names the first header that
\* is missing or does not parse: "date" or "reset"), and Date /
\* X-Rate-Limit-* as numbers (Date and X-Rate-Limit-Reset in seconds from the
\* receipt of the response).
Response(status, d, r, l, m) ==
    [kind |-> "resp", status |-> status, hdrOK |-> TRUE, bad |-> "none",
     date |-> d, reset |-> r, limit |-> l, remaining |-> m]

BadHeaders(status, bad) ==
    [kind |-> "resp", status |-> status, hdrOK |-> FALSE, bad |-> bad,
     date |-> 0, reset |-> 0, limit |-> 0, remaining |-> 0]

\* What one c.callAPI(req) can produce: a transport error that is io.EOF,
\* another transport error, or a response.  drainOK is FALSE for a 429 whose
\* body cannot be drained.
Faults ==
    {[kind |-> k, drainOK |-> TRUE, resp |-> NoResp] : k \in {"eof", "perr"}}
    \cup
    {[kind |-> "resp", drainOK |-> FALSE, resp |-> BadHeaders(429, "date")]}

Responses ==
    {[kind |-> "resp", drainOK |-> TRUE, resp |-> BadHeaders(s, "date")] : s \in {200, 404, 429}}
    \cup
    {[kind |-> "resp", drainOK |-> TRUE, resp |-> BadHeaders(429, "reset")]}
    \cup
    {[kind |-> "resp", drainOK |-> TRUE, resp |-> Response(s, 0 - lag, off - lag, l, m)] :
        s \in {200, 404, 429}, lag \in DateLags, off \in ResetOffsets,
        l \in LimitValues, m \in RemainingValues}

\* The responses of a server that never throttles, whose Date header is the
\* client's clock and whose error responses carry no rate-limit headers.
Unthrottled ==
    {o \in Responses :
       o.resp.status # 429 /\ o.resp.date = 0 /\ (o.resp.status = 404 => ~o.resp.hdrOK)}

Outcomes(e) ==
    IF e.faults THEN Faults \cup Responses
    ELSE IF e.throttles THEN Responses
    ELSE Unthrottled

NoLimit == [set |-> FALSE, Limit |-> 0, Remaining |-> 0, Reset |-> 0, epochIn |-> 0]

\* CreateCacheKey(req): the canonical fingerprint of the request.
CreateCacheKey(method, url) == <<method, url>>

Keys == {CreateCacheKey(m, u) : m \in Methods, u \in URLs}

\* Cache.Has / Cache.Delete / Cache.Set / Cache.Get
CacheHas(ch, key) == ch[key].kind # "none"

CacheDelete(ch, key) == [ch EXCEPT ![key] = NoResp]

CacheSet(ch, key, resp) == [ch EXCEPT ![key] = resp]

CacheGet(ch, key) == ch[key]

----------------------------------------------------------------------------
(* Pure functions of the executor. *)

\* tooManyRequests(resp)
tooManyRequests(resp) == resp.kind = "resp" /\ resp.status = 429

\* Get429BackoffTime(resp): X-Rate-Limit-Reset - Date + 1; ok is FALSE when
\* either header is missing or does not parse, and err is then the
\* backoff.Permanent error returned.
Get429BackoffTime(resp) ==
    IF resp.hdrOK
    THEN [ok |-> TRUE, v |-> resp.reset - resp.date + 1, err |-> "nil"]
    ELSE IF resp.bad = "date"
    THEN [ok |-> FALSE, v |-> 0, err |-> "date header is missing or invalid"]
    ELSE [ok |-> FALSE, v |-> 0, err |-> "X-Rate-Limit-Reset header is missing or invalid"]

\* The 429 backoff without the clamp.
NoClamp(backoffDuration, maxBackoff) == backoffDuration

\* doWithRetries: the clamp of the 429 backoff to RateLimit.MaxBackoff.
ClampBackoff(backoffDuration, maxBackoff) ==
    IF maxBackoff < backoffDuration THEN maxBackoff ELSE backoffDuration

\* NextBackOff stopping one attempt early (>= for >).
NextBackOffEarly(retryCount, maxRetries, backoffDuration) ==
    IF retryCount >= maxRetries THEN [stop |-> TRUE, d |-> 0]
                                ELSE [stop |-> FALSE, d |-> backoffDuration]

\* oktaBackoff.NextBackOff: stop once retryCount > maxRetries.
NextBackOff(retryCount, maxRetries, backoffDuration) ==
    IF retryCount > maxRetries THEN [stop |-> TRUE, d |-> 0]
                               ELSE [stop |-> FALSE, d |-> backoffDuration]

\* parseLimitHeaders(resp): the RateLimit of a response; Reset is the delay
\* Get429BackoffTime computes.  epochIn is not a field of the code's struct:
\* it counts the seconds left until the instant X-Rate-Limit-Reset names, and
\* is read only by the properties.
parseLimitHeaders(resp) ==
    IF resp.hdrOK
    THEN [ok |-> TRUE,
          v |-> [set |-> TRUE, Limit |-> resp.limit, Remaining |-> resp.remaining,
                 Reset |-> Get429BackoffTime(resp).v, epochIn |-> Max(resp.reset, 0)]]
    ELSE [ok |-> FALSE, v |-> NoLimit]

\* The gate's condition with < for <=.
MustWaitNegative(limit) == limit.set /\ limit.Remaining < 0

\* do: the gate's condition on the RateLimit it read.
MustWait(limit) == limit.set /\ limit.Remaining <= 0

\* The store condition without the test of the status.
CacheableAnyStatus(method, resp) == method = "GET"

\* The store condition without the test of the method.
CacheableAnyMethod(method, resp) == resp.status >= 200 /\ resp.status <= 299

\* do: which responses are stored in the response cache.
Cacheable(method, resp) ==
    resp.status >= 200 /\ resp.status <= 299 /\ method = "GET"

----------------------------------------------------------------------------
(* The state of one call. *)

IdleCall ==
    [pc |-> "idle", method |-> "GET", url |-> "u1",
     inCache |-> FALSE,        \* do: inCache
     retryCount |-> 0,         \* oktaBackoff.retryCount
     backoffDuration |-> 0,    \* oktaBackoff.backoffDuration, seconds
     timer |-> 0,              \* seconds left on the running timer
     wake |-> "none",          \* which case of the select woke the call
     cancelled |-> FALSE,      \* ctx.Done() is closed
     resp |-> NoResp,          \* the response doWithRetries / do returns
     hdrRetryFor |-> <<>>,     \* the request's X-Okta-Retry-For values
     hdrRetryCount |-> <<>>,   \* the request's X-Okta-Retry-Count values
     err |-> "nil",            \* the error returned to the caller
     \* history of the call, read only by the properties
     dispatches |-> 0,         \* dispatches to the transport so far
     path |-> "none",          \* "hit" or "miss"
     readLimit |-> FALSE,      \* the call read c.rateLimit
     session |-> FALSE,        \* the call created an oktaBackoff
     sawZero |-> FALSE,        \* the gate read a RateLimit with Remaining = 0
     sawQuota |-> FALSE,       \* the gate read a RateLimit with Remaining > 0
     epochIn |-> 0,            \* seconds left until that RateLimit's reset instant
     gateEpoch |-> 0,          \* the same, as it was at the gate
     waited |-> 0,             \* seconds spent parked in the running select
     last429 |-> NoResp,       \* the well-formed 429 the call is backing off from
     only429 |-> TRUE,         \* every dispatch so far returned a well-formed 429
     last429Id |-> 0,          \* X-Okta-Request-Id of the last 429 response
                               \* received whole
     perr |-> FALSE,           \* a dispatch failed with a transport error that
                               \* is not io.EOF
     bad429 |-> "none",        \* a dispatch returned a drained 429 whose headers
                               \* do not parse: the header at fault
     cancelledInWait |-> FALSE,\* ctx fired while the call was parked in a select
     waitKind |-> "none",      \* the select it was parked in: "gate" or "backoff"
     dispAtCancel |-> 0]       \* dispatches when that happened

Key(c) == CreateCacheKey(call[c].method, call[c].url)

Waiting(r) == r.pc \in {"gateWait", "boWait"}

\* Entering a select on ctx.Done() and a timer of dur seconds: the cases that
\* can be taken at once ("none": the goroutine parks).
SelectReady(r, dur) ==
    IF r.cancelled /\ dur <= 0 THEN {"ctx", "timer"}
    ELSE IF r.cancelled THEN {"ctx"}
    ELSE IF dur <= 0 THEN {"timer"}
    ELSE {"none"}

----------------------------------------------------------------------------
(* Initial state. *)

\* Configuration: RateLimit.Enable, MaxRetries and MaxBackoff; PrivateKey (a
\* PEM text createKeySigner parses, or one it rejects), PrivateKeySigner
\* (TRUE: a signer is configured), EncryptionType.
KeyConfig(key, signer, enc) ==
    [PrivateKey |-> key, PrivateKeySigner |-> signer, EncryptionType |-> enc]

DefaultKeyConfig == KeyConfig("pem", FALSE, "RSA")

Config(enable, retries, backoff, k) ==
    [Enable |-> enable, MaxRetries |-> retries, MaxBackoff |-> backoff,
     PrivateKey |-> k.PrivateKey, PrivateKeySigner |-> k.PrivateKeySigner,
     EncryptionType |-> k.EncryptionType]

Configs ==
    {Config(e, r, b, DefaultKeyConfig) :
       e \in BOOLEAN, r \in 0..MaxMaxRetries, b \in MaxBackoffValues}

InitExec ==
    /\ cfg \in Configs
    /\ cache = [k \in Keys |-> NoResp]
    /\ freshcache = FALSE
    /\ rateLimit = NoLimit
    /\ call = [c \in Calls |-> IdleCall]
    /\ bypasses = 0

\* One caller at a time, a transport that may fail, callers that may cancel.
Sequential == [callers |-> {"c1"}, faults |-> TRUE, throttles |-> TRUE, cancels |-> TRUE]

\* One caller at a time, servers that answer every request, no cancellation.
Quiet == [callers |-> {"c1"}, faults |-> FALSE, throttles |-> FALSE, cancels |-> FALSE]

\* Goroutines sharing one client, a server that answers every request.
Concurrent == [callers |-> Calls, faults |-> FALSE, throttles |-> FALSE, cancels |-> FALSE]


----------------------------------------------------------------------------
(* Actions of the executor. *)

\* A generated API method calls c.do(ctx, req) with a prepared request.
Begin(c) ==
    /\ call[c].pc = "idle"
    /\ c \in env.callers
    /\ \E m \in Methods, u \in URLs :
         call' = [call EXCEPT ![c] = [@ EXCEPT !.pc = "start", !.method = m, !.url = u]]
    /\ UNCHANGED <<authVars, bypasses, env, cfg, cache, freshcache, rateLimit>>

\* APIClient.RefreshNext
RefreshNext ==
    /\ freshcache' = TRUE
    /\ bypasses' = 0
    /\ UNCHANGED <<authVars, env, cfg, cache, rateLimit, call>>

\* do: a non-GET request deletes its key; then inCache := c.cache.Has(cacheKey).
DoStart(c) ==
    /\ call[c].pc = "start"
    /\ LET ch == IF call[c].method # "GET" THEN CacheDelete(cache, Key(c)) ELSE cache
       IN /\ cache' = ch
          /\ call' = [call EXCEPT ![c] = [@ EXCEPT !.pc = "fresh",
                                                  !.inCache = CacheHas(ch, Key(c))]]
    /\ UNCHANGED <<authVars, bypasses, env, cfg, freshcache, rateLimit>>

\* A call that goes to the gate whatever inCache says.
RouteAlwaysMiss(r) == "gate"

\* The call's next position once inCache is settled.
Route(r) == IF r.inCache THEN "hit" ELSE "gate"

\* do: if c.freshcache {  (the read of the unsynchronised flag)
DoFreshRead(c) ==
    /\ call[c].pc = "fresh"
    /\ call' = [call EXCEPT ![c] =
                  IF freshcache THEN [@ EXCEPT !.pc = "evict"]
                  ELSE [@ EXCEPT !.pc = Route(call[c])]]
    /\ UNCHANGED <<authVars, bypasses, env, cfg, cache, freshcache, rateLimit>>

\* do: c.cache.Delete(cacheKey); inCache = false; c.freshcache = false }
DoFreshEvict(c) ==
    /\ call[c].pc = "evict"
    /\ cache' = CacheDelete(cache, Key(c))
    /\ freshcache' = FALSE
    /\ call' = [call EXCEPT ![c] = [@ EXCEPT !.pc = "gate", !.inCache = FALSE]]
    /\ bypasses' = bypasses + 1
    /\ UNCHANGED <<authVars, env, cfg, rateLimit>>

\* do: return c.cache.Get(cacheKey), nil
DoHit(c) ==
    /\ call[c].pc = "hit"
    /\ call' = [call EXCEPT ![c] = [@ EXCEPT !.pc = "done", !.path = "hit",
                                            !.resp = CacheGet(cache, Key(c)),
                                            !.err = "nil"]]
    /\ UNCHANGED <<authVars, bypasses, env, cfg, cache, freshcache, rateLimit>>

\* do: the rate-limit gate.  With RateLimit.Enable the call reads c.rateLimit
\* under the lock and, when Remaining <= 0, starts a timer of Reset seconds
\* and selects on ctx.Done() and the timer.
DoGate(c) ==
    /\ call[c].pc = "gate"
    /\ LET r == [call[c] EXCEPT !.path = "miss", !.readLimit = cfg.Enable,
                                !.sawZero = cfg.Enable /\ rateLimit.set
                                            /\ rateLimit.Remaining = 0,
                                !.sawQuota = cfg.Enable /\ rateLimit.set
                                             /\ rateLimit.Remaining > 0,
                                !.epochIn = IF cfg.Enable THEN rateLimit.epochIn ELSE 0,
                                !.gateEpoch = IF cfg.Enable THEN rateLimit.epochIn ELSE 0,
                                !.waited = 0]
       IN IF cfg.Enable /\ MustWait(rateLimit)
          THEN \E w \in SelectReady(r, rateLimit.Reset) :
                 call' = [call EXCEPT ![c] =
                            [r EXCEPT !.pc = "gateWait", !.timer = rateLimit.Reset,
                                      !.wake = w]]
          ELSE call' = [call EXCEPT ![c] = [r EXCEPT !.pc = "op", !.session = TRUE]]
    /\ UNCHANGED <<authVars, bypasses, env, cfg, cache, freshcache, rateLimit>>

\* do: case <-timer.C
GateResume(c) ==
    /\ call[c].pc = "gateWait"
    /\ call[c].wake = "timer"
    /\ call' = [call EXCEPT ![c] = [@ EXCEPT !.pc = "op", !.wake = "none", !.timer = 0,
                                            !.waited = 0, !.session = TRUE]]
    /\ UNCHANGED <<authVars, bypasses, env, cfg, cache, freshcache, rateLimit>>

\* do: case <-ctx.Done(): return nil, ctx.Err()
GateCancelled(c) ==
    /\ call[c].pc = "gateWait"
    /\ call[c].wake = "ctx"
    /\ call' = [call EXCEPT ![c] = [@ EXCEPT !.pc = "done", !.wake = "none", !.timer = 0,
                                            !.waited = 0, !.err = "ctx"]]
    /\ UNCHANGED <<authVars, bypasses, env, cfg, cache, freshcache, rateLimit>>

\* The operation returning every transport error as a retryable one.
OperationRetriesTransport(r, o, maxBackoff) ==
    IF o.kind = "eof"
    THEN [verdict |-> "retry", err |-> "network error",
          retryCount |-> r.retryCount, backoffDuration |-> r.backoffDuration]
    ELSE IF o.kind = "perr"
    THEN [verdict |-> "retry", err |-> "transport error",
          retryCount |-> r.retryCount, backoffDuration |-> r.backoffDuration]
    ELSE IF ~tooManyRequests(o.resp)
    THEN [verdict |-> "nil", err |-> "nil",
          retryCount |-> r.retryCount, backoffDuration |-> r.backoffDuration]
    ELSE IF ~o.drainOK
    THEN [verdict |-> "retry", err |-> "drain error",
          retryCount |-> r.retryCount, backoffDuration |-> r.backoffDuration]
    ELSE IF ~Get429BackoffTime(o.resp).ok
    THEN [verdict |-> "permanent", err |-> Get429BackoffTime(o.resp).err,
          retryCount |-> r.retryCount, backoffDuration |-> r.backoffDuration]
    ELSE [verdict |-> "retry", err |-> "too many requests",
          retryCount |-> r.retryCount + 1,
          backoffDuration |-> ClampBackoff(Get429BackoffTime(o.resp).v, maxBackoff)]

\* The operation returning the error of Get429BackoffTime as a retryable one.
OperationRetriesHeaders(r, o, maxBackoff) ==
    IF o.kind = "eof"
    THEN [verdict |-> "retry", err |-> "network error",
          retryCount |-> r.retryCount, backoffDuration |-> r.backoffDuration]
    ELSE IF o.kind = "perr"
    THEN [verdict |-> "permanent", err |-> "transport error",
          retryCount |-> r.retryCount, backoffDuration |-> r.backoffDuration]
    ELSE IF ~tooManyRequests(o.resp)
    THEN [verdict |-> "nil", err |-> "nil",
          retryCount |-> r.retryCount, backoffDuration |-> r.backoffDuration]
    ELSE IF ~o.drainOK
    THEN [verdict |-> "retry", err |-> "drain error",
          retryCount |-> r.retryCount, backoffDuration |-> r.backoffDuration]
    ELSE IF ~Get429BackoffTime(o.resp).ok
    THEN [verdict |-> "retry", err |-> Get429BackoffTime(o.resp).err,
          retryCount |-> r.retryCount, backoffDuration |-> r.backoffDuration]
    ELSE [verdict |-> "retry", err |-> "too many requests",
          retryCount |-> r.retryCount + 1,
          backoffDuration |-> ClampBackoff(Get429BackoffTime(o.resp).v, maxBackoff)]

\* doWithRetries: one run of the operation closure on the outcome o of
\* c.callAPI(req).  verdict is what backoff.Retry sees: "nil" (success),
\* "permanent" (a backoff.Permanent error) or "retry" (any other error).
Operation(r, o, maxBackoff) ==
    IF o.kind = "eof"
    THEN [verdict |-> "retry", err |-> "network error",
          retryCount |-> r.retryCount, backoffDuration |-> r.backoffDuration]
    ELSE IF o.kind = "perr"
    THEN [verdict |-> "permanent", err |-> "transport error",
          retryCount |-> r.retryCount, backoffDuration |-> r.backoffDuration]
    ELSE IF ~tooManyRequests(o.resp)
    THEN [verdict |-> "nil", err |-> "nil",
          retryCount |-> r.retryCount, backoffDuration |-> r.backoffDuration]
    ELSE IF ~o.drainOK
    THEN [verdict |-> "retry", err |-> "drain error",
          retryCount |-> r.retryCount, backoffDuration |-> r.backoffDuration]
    ELSE IF ~Get429BackoffTime(o.resp).ok
    THEN [verdict |-> "permanent", err |-> Get429BackoffTime(o.resp).err,
          retryCount |-> r.retryCount, backoffDuration |-> r.backoffDuration]
    ELSE [verdict |-> "retry", err |-> "too many requests",
          retryCount |-> r.retryCount + 1,
          backoffDuration |-> ClampBackoff(Get429BackoffTime(o.resp).v, maxBackoff)]

\* X-Okta-Request-Id of the j-th 429 response a call receives whole: the
\* server names every request it answers, each differently, and the executor
\* reads the name on such responses only.
RequestId(j) == j

\* http.Header.Add: the value is appended to the values of the key.
HeaderAdd(values, v) == Append(values, v)

\* backoff.Retry, on a retryable error of a stopped backoff: the error it
\* returns.  Releases of the library from 4.2 on return ctx.Err() when the
\* context is done, earlier ones the operation's error.
StopErrors(r, err) == IF r.cancelled THEN {err, "ctx"} ELSE {err}

WellFormed429(o) == tooManyRequests(o.resp) /\ o.drainOK /\ o.resp.hdrOK

\* A 429 received whole whose Date or X-Rate-Limit-Reset does not parse.
Malformed429(o) == tooManyRequests(o.resp) /\ o.drainOK /\ ~o.resp.hdrOK

\* doWithRetries: c.callAPI(req) inside backoff.Retry(operation, bOff); one
\* dispatch, the operation's verdict, and the library's next move.
DoOperation(c) ==
    /\ call[c].pc = "op"
    /\ call[c].dispatches < MaxDispatch
    /\ \E o \in Outcomes(env) :
         LET r == call[c]
             res == Operation(r, o, cfg.MaxBackoff)
             r1 == [r EXCEPT !.dispatches = @ + 1,
                             !.only429 = @ /\ WellFormed429(o),
                             !.perr = @ \/ o.kind = "perr",
                             !.last429Id = IF tooManyRequests(o.resp) /\ o.drainOK
                                           THEN RequestId(r.last429Id + 1) ELSE @,
                             !.hdrRetryFor =
                                 IF res.err = "too many requests"
                                 THEN HeaderAdd(@, RequestId(r.last429Id + 1)) ELSE @,
                             !.hdrRetryCount =
                                 IF res.err = "too many requests"
                                 THEN HeaderAdd(@, res.retryCount) ELSE @,
                             !.bad429 = IF Malformed429(o) THEN o.resp.bad ELSE @,
                             !.retryCount = res.retryCount,
                             !.backoffDuration = res.backoffDuration]
             nb == NextBackOff(r1.retryCount, cfg.MaxRetries, r1.backoffDuration)
         IN CASE res.verdict = "nil" ->
                   call' = [call EXCEPT ![c] = [r1 EXCEPT !.pc = "post", !.resp = o.resp]]
              [] res.verdict = "permanent" ->
                   call' = [call EXCEPT ![c] = [r1 EXCEPT !.pc = "done", !.err = res.err]]
              [] res.verdict = "retry" /\ nb.stop ->
                   \E e \in StopErrors(r1, res.err) :
                     call' = [call EXCEPT ![c] = [r1 EXCEPT !.pc = "done", !.err = e]]
              [] res.verdict = "retry" /\ ~nb.stop ->
                   \E w \in SelectReady(r1, nb.d) :
                     call' = [call EXCEPT ![c] =
                                [r1 EXCEPT !.pc = "boWait", !.timer = nb.d, !.wake = w,
                                           !.waited = 0,
                                           !.last429 = IF WellFormed429(o) THEN o.resp
                                                       ELSE NoResp]]
    /\ UNCHANGED <<authVars, bypasses, env, cfg, cache, freshcache, rateLimit>>

\* backoff.Retry: case <-t.C(): run the operation again
BackoffResume(c) ==
    /\ call[c].pc = "boWait"
    /\ call[c].wake = "timer"
    /\ call' = [call EXCEPT ![c] = [@ EXCEPT !.pc = "op", !.wake = "none", !.timer = 0,
                                            !.waited = 0, !.last429 = NoResp]]
    /\ UNCHANGED <<authVars, bypasses, env, cfg, cache, freshcache, rateLimit>>

\* A backoff wait that runs the operation again when ctx is done.
BackoffIgnoresCancel(c) ==
    /\ call[c].pc = "boWait"
    /\ call[c].wake = "ctx"
    /\ call' = [call EXCEPT ![c] = [@ EXCEPT !.pc = "op", !.wake = "none", !.timer = 0,
                                            !.waited = 0, !.last429 = NoResp]]
    /\ UNCHANGED <<authVars, bypasses, env, cfg, cache, freshcache, rateLimit>>

\* backoff.Retry: case <-ctx.Done(): return ctx.Err()
BackoffCancelled(c) ==
    /\ call[c].pc = "boWait"
    /\ call[c].wake = "ctx"
    /\ call' = [call EXCEPT ![c] = [@ EXCEPT !.pc = "done", !.wake = "none", !.timer = 0,
                                            !.waited = 0, !.last429 = NoResp, !.err = "ctx"]]
    /\ UNCHANGED <<authVars, bypasses, env, cfg, cache, freshcache, rateLimit>>

\* An update of c.rateLimit that writes Remaining into the RateLimit in
\* place, leaving the other fields as they were.
DoPostTorn(c) ==
    /\ call[c].pc = "post"
    /\ LET r == call[c]
           parsed == parseLimitHeaders(r.resp)
       IN /\ rateLimit' = IF Cacheable(r.method, r.resp) /\ cfg.Enable /\ parsed.ok
                          THEN [rateLimit EXCEPT !.set = TRUE,
                                                 !.Remaining = parsed.v.Remaining]
                          ELSE rateLimit
          /\ cache' = IF Cacheable(r.method, r.resp)
                      THEN CacheSet(cache, Key(c), r.resp) ELSE cache
          /\ call' = [call EXCEPT ![c] = [r EXCEPT !.pc = "done", !.err = "nil"]]
    /\ UNCHANGED <<authVars, bypasses, env, cfg, freshcache>>

\* do: after doWithRetries returned a response: a 2xx GET response updates
\* c.rateLimit (when enabled and the headers parse) and is stored in the cache.
DoPost(c) ==
    /\ call[c].pc = "post"
    /\ LET r == call[c]
           parsed == parseLimitHeaders(r.resp)
       IN /\ rateLimit' = IF Cacheable(r.method, r.resp) /\ cfg.Enable /\ parsed.ok
                          THEN parsed.v ELSE rateLimit
          /\ cache' = IF Cacheable(r.method, r.resp)
                      THEN CacheSet(cache, Key(c), r.resp) ELSE cache
          /\ call' = [call EXCEPT ![c] = [r EXCEPT !.pc = "done", !.err = "nil"]]
    /\ UNCHANGED <<authVars, bypasses, env, cfg, freshcache>>

\* The caller's cancellation signal fires.  A call parked in a select is woken
\* by it.
Cancel(c) ==
    /\ env.cancels
    /\ call[c].pc \notin {"idle", "done"}
    /\ ~call[c].cancelled
    /\ call' = [call EXCEPT ![c] =
                  IF Waiting(call[c]) /\ call[c].wake = "none"
                  THEN [@ EXCEPT !.cancelled = TRUE, !.wake = "ctx",
                                 !.cancelledInWait = TRUE,
                                 !.waitKind = IF call[c].pc = "gateWait" THEN "gate"
                                              ELSE "backoff",
                                 !.dispAtCancel = call[c].dispatches]
                  ELSE [@ EXCEPT !.cancelled = TRUE]]
    /\ UNCHANGED <<authVars, bypasses, env, cfg, cache, freshcache, rateLimit>>

\* do has returned to the generated API method; the caller may call again.
Return(c) ==
    /\ call[c].pc = "done"
    /\ call' = [call EXCEPT ![c] = IdleCall]
    /\ UNCHANGED <<authVars, bypasses, env, cfg, cache, freshcache, rateLimit>>

\* One second passes for a call: its running timer advances and, on reaching
\* zero, wakes the parked call; the reset instant it saw at the gate nears.
CallTick(r) ==
    LET r1 == [r EXCEPT !.epochIn = Max(@ - 1, 0)]
    IN IF Waiting(r) /\ r.wake = "none"
       THEN [r1 EXCEPT !.timer = @ - 1, !.waited = @ + 1,
                       !.wake = IF r.timer - 1 <= 0 THEN "timer" ELSE "none"]
       ELSE r1

\* A second passes.
Tick ==
    /\ call' = [c \in Calls |-> CallTick(call[c])]
    /\ rateLimit' = [rateLimit EXCEPT !.epochIn = Max(@ - 1, 0)]
    /\ UNCHANGED <<authVars, bypasses, env, cfg, cache, freshcache>>

----------------------------------------------------------------------------
(* The token cache (github.com/patrickmn/go-cache) and the values kept in  *)
(* it.                                                                     *)

\* goCache.New(5*time.Minute, ...): the default expiration, in seconds.
DefaultExpiration == 300

\* Authorize: expiration := accessToken.ExpiresIn - 2
ExpiryTrim == 2

TokenModes == {"PrivateKey", "JWT", "JWK"}

\* A mode the switch of prepareRequest does not know.
UnknownModes == {"OAuth"}

\* The modes of SSWSAuth and BearerAuth.
StaticModes == {"SSWS", "Bearer"}

\* The Authorization value of a static strategy: "<scheme> <configured token>".
StaticValue(m) == [type |-> m, x |-> 0, n |-> 0, sp |-> FALSE]

\* expires_in values the token endpoint may return.
ExpiresInValues == {1, 2, 3}

\* Dpop-Nonce header values of a use_dpop_nonce response.
NonceValues == {"", "n1"}

\* RequestAccessToken: token_type and access_token (the token of exchange x;
\* x = 0: no token) and expires_in.  sp: the access_token contains a space.
NoToken == [type |-> "", x |-> 0, n |-> 0, sp |-> FALSE]

\* A *rsa.PrivateKey made by generatePrivateKey in round `round` of exchange
\* x; NoKey is the nil pointer.
NoKey == [x |-> 0, round |-> 0]

\* A DPoP proof: the key that signs it and the nonce and ath claims (ath: the
\* exchange of the access token hashed, 0 when the claim is absent).
NoProof == [signed |-> FALSE, key |-> NoKey, nonce |-> "", ath |-> 0]

\* generateDpopJWT(privateKey, method, URL, nonce, accessToken)
generateDpopJWT(privateKey, nonce, accessToken) ==
    [signed |-> TRUE, key |-> privateKey, nonce |-> nonce, ath |-> accessToken]

\* The characters of an access token, as Unicode code points: 'a' (U+0061),
\* U+00E9, U+0161 and U+20AC.
Runes == {97, 233, 353, 8364}

\* A Go string that is valid UTF-8 (as every string decoded from JSON is), as
\* the sequence of its code points.
Tokens == UNION {[1..n -> Runes] : n \in 0..MaxTokenLen}

\* The UTF-8 encoding of a code point below U+10000: the bytes the string
\* holds for it.
EncodeRune(r) ==
    IF r < 128 THEN <<r>>
    ELSE IF r < 2048 THEN <<192 + (r \div 64), 128 + (r % 64)>>
    ELSE <<224 + (r \div 4096), 128 + ((r \div 64) % 64), 128 + (r % 64)>>

\* []byte(s): the bytes of the string.
RECURSIVE RawBytes(_)
RawBytes(s) == IF s = <<>> THEN <<>> ELSE EncodeRune(Head(s)) \o RawBytes(Tail(s))

\* StringToAsciiBytes(s): one byte per rune of s, byte(r).
StringToAsciiBytes(s) == [i \in 1..Len(s) |-> s[i] % 256]

\* sha256 and base64.RawURLEncoding, as the digest and the encoding of the
\* bytes they are given.
Sum256(bytes) == <<"sha256", bytes>>

RawURLEncoding(bytes) == <<"base64url", bytes>>

\* generateDpopJWT: the ath claim of the proof for accessToken; <<>> when the
\* claim is absent (omitempty).
DpopAth(accessToken) ==
    IF accessToken # <<>>
    THEN RawURLEncoding(Sum256(StringToAsciiBytes(accessToken)))
    ELSE <<>>

\* A go-cache Item: Object (one field per kind of value kept) and Expiration
\* (0: the item never expires).  n, setAt and by belong to the history: the
\* expires_in the item was stored for, when, and by which exchange.
NoItem == [found |-> FALSE, cred |-> NoToken, nonce |-> "", key |-> NoKey,
           exp |-> 0, n |-> 0, setAt |-> 0, by |-> 0]

\* cache.Set(k, x, d): d = 0 means the default expiration; an item gets an
\* expiration time only when d > 0.
TokenCacheSet(item, d, t) ==
    LET d1 == IF d = 0 THEN DefaultExpiration ELSE d
    IN [item EXCEPT !.found = TRUE, !.exp = IF d1 > 0 THEN t + d1 ELSE 0, !.setAt = t]

\* cache.Get(k): found, unless the item has an expiration time and the clock
\* is past it.
TokenCacheGet(item, t) ==
    IF item.found /\ ~(item.exp > 0 /\ t > item.exp) THEN item ELSE NoItem

\* The hit test with == for !=.
TokenHitInverted(item) == item.found /\ item.cred = NoToken

\* Authorize: if hasToken && accessToken != "".  The cached value is
\* "<token_type> <access_token>", which is not the empty string.
TokenHit(item) == item.found /\ item.cred # NoToken

\* Authorize: if hasNonce && nonce != ""
NonceHit(item) == item.found /\ item.nonce # ""

\* Authorize: if ok && privateKey != nil.  The cached value is a
\* *rsa.PrivateKey inside an interface, which is non-nil even for a nil pointer.
KeyHit(item) == item.found

----------------------------------------------------------------------------
(* The token endpoint and the state of one Authorize call. *)

\* What httpClient.Do(tokenRequest) can produce: a transport error, a >=300
\* response (its body may contain invalid_dpop_proof or use_dpop_nonce, its
\* Dpop-Nonce header is nonceHdr), or a 2xx response whose body parses or not.
TokResp(k, idp, udn, nh, parse, ty, n, sp) ==
    [kind |-> k, idp |-> idp, udn |-> udn, nonceHdr |-> nh, parseOK |-> parse,
     type |-> ty, n |-> n, sp |-> sp]

TokOutcomes ==
    {TokResp("neterr", FALSE, FALSE, "", FALSE, "", 0, FALSE)}
    \cup {TokResp("fail", i, FALSE, "", FALSE, "", 0, FALSE) : i \in BOOLEAN}
    \cup {TokResp("fail", FALSE, TRUE, nh, FALSE, "", 0, FALSE) : nh \in NonceValues}
    \cup {TokResp("ok", FALSE, FALSE, "", FALSE, "", 0, FALSE)}
    \cup {TokResp("ok", FALSE, FALSE, "", TRUE, ty, n, sp) :
            ty \in {"Bearer", "DPoP"}, n \in ExpiresInValues, sp \in BOOLEAN}

\* The answers of a token endpoint in the environment e: without faults, the
\* endpoint is reached and grants a token that lives longer than the trim, at
\* once or after a handshake in which it names a nonce; its tokens have no
\* space.
TokAnswers(e) ==
    IF e.faults THEN TokOutcomes
    ELSE {o \in TokOutcomes : \/ o.kind = "ok" /\ o.parseOK /\ o.n > ExpiryTrim /\ ~o.sp
                              \/ o.kind = "fail" /\ (o.idp \/ (o.udn /\ o.nonceHdr # ""))}

\* The short name of a response in a call's history.
RespTag(o) ==
    IF o.kind = "neterr" THEN "neterr"
    ELSE IF o.kind = "ok" THEN (IF o.parseOK THEN "ok" ELSE "garbled")
    ELSE IF o.idp THEN "idp"
    ELSE IF o.udn THEN "udn"
    ELSE "other"

IdleAuth ==
    [pc |-> "idle",
     hdrAuth |-> <<>>,        \* the request's Authorization values
     hdrDpop |-> NoProof,     \* the request's Dpop header
     hdrUA |-> FALSE,         \* x-okta-user-agent-extended: isDPoP:true
     cred |-> NoToken,        \* accessToken (cached or returned)
     nonce |-> "",            \* nonce (cached, or the exchange's current one)
     key |-> NoKey,           \* privateKey (cached, or the exchange's current one)
     x |-> 0,                 \* the exchange this call runs
     stage |-> "none",        \* "plain": getAccessTokenForPrivateKey,
                              \* "dpop": getAccessTokenForDpopPrivateKey
     round |-> 0,             \* keys generated by this exchange
     retryCount |-> 0,        \* oktaBackoff.retryCount of the running stage
     err |-> "nil",           \* what Authorize returned ("panic": it panicked)
     runs |-> 0,              \* Authorize calls made on the pending request
     cancelled |-> FALSE,     \* the context of the caller's call is done
     sentAfterCancel |-> FALSE, \* history: a token request was sent after that
     \* history of the call, read only by the properties
     hit |-> FALSE,           \* the call took the cached-token branch
     sawLive |-> FALSE,       \* the token item was stored and not yet expired
     claimed |-> "none",      \* the token item by expires_in - 2: "live", "expired"
     cached |-> NoToken,      \* the credential in the token item at that time
     reqs |-> <<>>,           \* the DPoP proofs of the token requests sent
     hist |-> <<>>,           \* the tags of the responses received
     lastNonceHdr |-> "",     \* the Dpop-Nonce of the last use_dpop_nonce response
     delays |-> <<>>,         \* the waits of backoff.Retry between two sends, in
                              \* nanoseconds
     srcNonce |-> 0,          \* the exchange that stored the nonce read on a hit
     srcKey |-> 0,            \* the exchange that stored the key read on a hit
     prevErr |-> "nil",       \* what the caller's previous Authorize returned
     ctx |-> {},              \* the authorizations the call's context supplies
     accessToken |-> <<>>,    \* generateDpopJWT: the accessToken argument
     ath |-> <<>>]            \* generateDpopJWT: the ath claim of the proof

\* The signer Authorize hands to getAccessTokenForPrivateKey: JWTAuth and
\* JWKAuth pass nil.
SignerPassed(m) == m = "PrivateKey"

\* createKeySigner accepts every key.
createKeySignerLenient(privateKey) == "nil"

\* createKeySigner(privateKey, privateKeyID): the error it returns.
createKeySigner(privateKey) ==
    IF privateKey = "pem" THEN "nil" ELSE "invalid private key"

\* convertJWKToPrivateKey(jwks, encryptionType): the error it returns; the
\* key it returns is the PEM text of the set's RSA key.
convertJWKToPrivateKey(encryptionType) ==
    IF encryptionType = "RSA" THEN "nil" ELSE "unknown encryptionType"

\* Authorize, on a miss, up to the signer: the error of the key conversion
\* (JWKAuth) and of createKeySigner (PrivateKeyAuth and JWKAuth, when no
\* signer is configured); JWTAuth has neither.
SignerError(m, cf) ==
    IF m = "JWK" /\ convertJWKToPrivateKey(cf.EncryptionType) # "nil"
    THEN convertJWKToPrivateKey(cf.EncryptionType)
    ELSE IF m \in {"PrivateKey", "JWK"} /\ ~cf.PrivateKeySigner
    THEN createKeySigner(IF m = "JWK" THEN "pem" ELSE cf.PrivateKey)
    ELSE "nil"

----------------------------------------------------------------------------
(* Actions of Authorize. *)

AuthDone(r, e) == [r EXCEPT !.pc = "done", !.err = e]

\* prepareRequest: the switch on AuthorizationMode, then
\* auth.Authorize(method, URL)
SwitchMode(r) ==
    IF mode \in UnknownModes
    THEN AuthDone([r EXCEPT !.runs = 1], "unknown authorization mode")
    ELSE [r EXCEPT !.pc = IF mode \in StaticModes THEN "static" ELSE "rdTok",
                   !.runs = 1]

\* prepareRequest of a call whose context carries no authorization.
AuthBegin(c) ==
    /\ auth[c].pc = "idle"
    /\ c \in env.callers
    /\ auth' = [auth EXCEPT ![c] = SwitchMode(@)]
    /\ UNCHANGED <<env, cfg, execVars, mode, clock, tokenCache, nextX>>

\* SSWSAuth.Authorize / BearerAuth.Authorize
AuthStatic(c) ==
    /\ auth[c].pc = "static"
    /\ auth' = [auth EXCEPT ![c] =
                  AuthDone([@ EXCEPT !.hdrAuth = Append(@, StaticValue(mode))], "nil")]
    /\ UNCHANGED <<env, cfg, execVars, mode, clock, tokenCache, nextX>>

\* The holder of a static strategy calls Authorize again on the same pending
\* request.
AuthRepeat(c) ==
    /\ auth[c].pc = "done"
    /\ mode \in StaticModes
    /\ auth[c].runs < MaxAuthorize
    /\ auth' = [auth EXCEPT ![c] = [@ EXCEPT !.pc = "static", !.runs = @ + 1]]
    /\ UNCHANGED <<env, cfg, execVars, mode, clock, tokenCache, nextX>>

\* Authorize: tokenCache.Get(AccessTokenCacheKey); on a hit the cached value
\* is added to the Authorization header.
AuthReadToken(c) ==
    /\ auth[c].pc = "rdTok"
    /\ LET stored == tokenCache.tok
           item == TokenCacheGet(stored, clock)
           r == [auth[c] EXCEPT
                   !.sawLive = stored.found /\ (stored.exp = 0 \/ clock < stored.exp),
                   !.claimed = IF ~stored.found THEN "none"
                               ELSE IF clock - stored.setAt >= stored.n - ExpiryTrim
                               THEN "expired" ELSE "live",
                   !.cached = stored.cred]
       IN auth' = [auth EXCEPT ![c] =
                     IF TokenHit(item)
                     THEN [r EXCEPT !.pc = "rdNonce", !.hit = TRUE, !.cred = item.cred,
                                    !.hdrAuth = Append(@, item.cred)]
                     ELSE [r EXCEPT !.pc = "signer"]]
    /\ UNCHANGED <<env, cfg, execVars, mode, clock, tokenCache, nextX>>

\* Authorize: tokenCache.Get(DpopAccessTokenNonce)
AuthReadNonce(c) ==
    /\ auth[c].pc = "rdNonce"
    /\ LET item == TokenCacheGet(tokenCache.nonce, clock)
       IN auth' = [auth EXCEPT ![c] =
                     IF NonceHit(item)
                     THEN [@ EXCEPT !.pc = "rdKey", !.nonce = item.nonce,
                                    !.srcNonce = item.by]
                     ELSE AuthDone(auth[c], "nil")]
    /\ UNCHANGED <<env, cfg, execVars, mode, clock, tokenCache, nextX>>

\* Authorize: tokenCache.Get(DpopAccessTokenPrivateKey), then the proof for
\* the cached token.  The cached string must split at spaces into two parts;
\* generateDpopJWT dereferences the key: a nil key panics.
AuthReadKey(c) ==
    /\ auth[c].pc = "rdKey"
    /\ LET item == TokenCacheGet(tokenCache.key, clock)
           r == auth[c]
       IN auth' = [auth EXCEPT ![c] =
                     IF ~KeyHit(item)
                     THEN AuthDone(r, "Using Dpop but signing key not found")
                     ELSE IF r.cred.sp
                     THEN AuthDone(r, "Unidentified access token")
                     ELSE IF item.key = NoKey
                     THEN AuthDone(r, "panic")
                     ELSE AuthDone([r EXCEPT !.key = item.key, !.hdrUA = TRUE,
                                             !.srcKey = item.by,
                                             !.hdrDpop = generateDpopJWT(item.key, r.nonce,
                                                                         r.cred.x)],
                                   "nil")]
    /\ UNCHANGED <<env, cfg, execVars, mode, clock, tokenCache, nextX>>

\* Authorize, on a miss: the signer and the client assertion, then the call
\* of getAccessTokenForPrivateKey.
AuthPrepare(c) ==
    /\ auth[c].pc = "signer"
    /\ IF SignerError(mode, cfg) # "nil"
       THEN /\ auth' = [auth EXCEPT ![c] = AuthDone(@, SignerError(mode, cfg))]
            /\ UNCHANGED nextX
       ELSE /\ nextX < MaxExchanges + Cardinality(env.callers) - 1
            /\ nextX' = nextX + 1
            /\ auth' = [auth EXCEPT ![c] = [@ EXCEPT !.pc = "send", !.x = nextX + 1,
                                                    !.stage = "plain", !.retryCount = 0]]
    /\ UNCHANGED <<env, cfg, execVars, mode, clock, tokenCache>>

\* getAccessTokenForDpopPrivateKey(nonce): a new key and a proof over the
\* nonce, on a new backoff.
EnterDpop(r, nonce) ==
    [r EXCEPT !.pc = "send", !.stage = "dpop", !.nonce = nonce, !.retryCount = 0,
              !.round = @ + 1, !.key = [x |-> r.x, round |-> r.round + 1]]

\* The proof on the token request of the running stage.
TokenRequestProof(r) ==
    IF r.stage = "dpop" THEN generateDpopJWT(r.key, r.nonce, 0) ELSE NoProof

\* Either stage sending its request again after a >=300 response.
OnTokenResponseResends(r, o, signer) ==
    IF o.kind = "fail" THEN [r EXCEPT !.pc = "send"]
    ELSE IF ~o.parseOK THEN AuthDone(r, "Empty access token")
    ELSE [r EXCEPT !.pc = "attach",
                   !.cred = [type |-> o.type, x |-> r.x, n |-> o.n, sp |-> o.sp]]

\* getAccessTokenForPrivateKey / getAccessTokenForDpopPrivateKey after
\* backoff.Retry returned the response o, up to the return to Authorize and
\* Authorize's own checks of what was returned.
OnTokenResponse(r, o, signer) ==
    IF r.stage = "plain"
    THEN IF ~signer THEN AuthDone(r, "panic")
         ELSE IF o.kind = "fail"
         THEN (IF o.idp THEN EnterDpop(r, "") ELSE AuthDone(r, "Empty access token"))
         ELSE IF ~o.parseOK THEN AuthDone(r, "decode error")
         ELSE [r EXCEPT !.pc = "attach", !.nonce = "", !.key = NoKey,
                        !.cred = [type |-> o.type, x |-> r.x, n |-> o.n, sp |-> o.sp]]
    ELSE IF o.kind = "fail"
         THEN (IF o.udn THEN EnterDpop(r, o.nonceHdr)
               ELSE AuthDone(r, "Empty access token"))
         ELSE IF ~o.parseOK THEN AuthDone(r, "Empty access token")
         ELSE [r EXCEPT !.pc = "attach",
                        !.cred = [type |-> o.type, x |-> r.x, n |-> o.n, sp |-> o.sp]]

\* backoff.Retry(operation, bOff) of either stage: one run of the operation,
\* which sends the request and counts it.  A transport error is retried after
\* bOff.backoffDuration, time.Duration(maxBackoff), until the backoff stops.
TokSend(c) ==
    /\ auth[c].pc = "send"
    /\ Len(auth[c].reqs) < MaxTokReqs
    /\ \E o \in TokAnswers(env) :
         LET r == [auth[c] EXCEPT !.reqs = Append(@, TokenRequestProof(auth[c])),
                                  !.sentAfterCancel = auth[c].cancelled,
                                  !.hist = Append(@, RespTag(o)),
                                  !.lastNonceHdr = IF RespTag(o) = "udn" THEN o.nonceHdr
                                                   ELSE @,
                                  !.retryCount = @ + 1]
             nb == NextBackOff(r.retryCount, cfg.MaxRetries, cfg.MaxBackoff)
         IN auth' = [auth EXCEPT ![c] =
                       IF o.kind = "neterr"
                       THEN IF nb.stop
                            THEN AuthDone(r, "transport error")
                            ELSE [r EXCEPT !.pc = "tokWait", !.delays = Append(@, nb.d)]
                       ELSE OnTokenResponse(r, o, SignerPassed(mode))]
    /\ UNCHANGED <<env, cfg, execVars, mode, clock, tokenCache, nextX>>

\* backoff.Retry between two attempts: a timer of bOff.backoffDuration
\* (time.Duration(maxBackoff), that many nanoseconds) and the Done channel of
\* bOff.ctx, which is context.TODO() and never closes.
TokResume(c) ==
    /\ auth[c].pc = "tokWait"
    /\ auth' = [auth EXCEPT ![c] = [@ EXCEPT !.pc = "send"]]
    /\ UNCHANGED <<env, cfg, execVars, mode, clock, tokenCache, nextX>>

\* The cancellation signal of the caller fires while the exchange is
\* suspended: in the wait after a transport error, or between two round trips.
AuthCancel(c) ==
    /\ env.cancels
    /\ auth[c].pc \in {"tokWait", "send"}
    /\ Len(auth[c].reqs) >= 1
    /\ ~auth[c].cancelled
    /\ auth' = [auth EXCEPT ![c] = [@ EXCEPT !.cancelled = TRUE]]
    /\ UNCHANGED <<env, cfg, execVars, mode, clock, tokenCache, nextX>>

\* The miss branch building the proof from the nonce and the key in the token
\* cache.
AuthAttachFromCache(c) ==
    /\ auth[c].pc = "attach"
    /\ LET r == [auth[c] EXCEPT !.hdrAuth = <<auth[c].cred>>]
       IN auth' = [auth EXCEPT ![c] =
                     IF r.cred.type # "DPoP" THEN [r EXCEPT !.pc = "stTok"]
                     ELSE IF r.key = NoKey THEN AuthDone(r, "panic")
                     ELSE [r EXCEPT !.pc = "stTok", !.hdrUA = TRUE,
                                    !.hdrDpop = generateDpopJWT(tokenCache.key.key,
                                                                tokenCache.nonce.nonce,
                                                                r.cred.x)]]
    /\ UNCHANGED <<env, cfg, execVars, mode, clock, tokenCache, nextX>>

\* Authorize: the headers for the credential the exchange returned.
AuthAttach(c) ==
    /\ auth[c].pc = "attach"
    /\ LET r == [auth[c] EXCEPT !.hdrAuth = <<auth[c].cred>>]
       IN auth' = [auth EXCEPT ![c] =
                     IF r.cred.type # "DPoP" THEN [r EXCEPT !.pc = "stTok"]
                     ELSE IF r.key = NoKey THEN AuthDone(r, "panic")
                     ELSE [r EXCEPT !.pc = "stTok", !.hdrUA = TRUE,
                                    !.hdrDpop = generateDpopJWT(r.key, r.nonce, r.cred.x)]]
    /\ UNCHANGED <<env, cfg, execVars, mode, clock, tokenCache, nextX>>

\* Authorize: a.tokenCache.Set(AccessTokenCacheKey, ..., expiration)
AuthStoreToken(c) ==
    /\ auth[c].pc = "stTok"
    /\ LET r == auth[c]
       IN tokenCache' = [tokenCache EXCEPT !.tok =
                           TokenCacheSet([NoItem EXCEPT !.cred = r.cred, !.n = r.cred.n,
                                                        !.by = r.x],
                                         r.cred.n - ExpiryTrim, clock)]
    /\ auth' = [auth EXCEPT ![c] = [@ EXCEPT !.pc = "stNonce"]]
    /\ UNCHANGED <<env, cfg, execVars, mode, clock, nextX>>

\* Authorize: a.tokenCache.Set(DpopAccessTokenNonce, nonce, expiration)
AuthStoreNonce(c) ==
    /\ auth[c].pc = "stNonce"
    /\ LET r == auth[c]
       IN tokenCache' = [tokenCache EXCEPT !.nonce =
                           TokenCacheSet([NoItem EXCEPT !.nonce = r.nonce, !.n = r.cred.n,
                                                        !.by = r.x],
                                         r.cred.n - ExpiryTrim, clock)]
    /\ auth' = [auth EXCEPT ![c] = [@ EXCEPT !.pc = "stKey"]]
    /\ UNCHANGED <<env, cfg, execVars, mode, clock, nextX>>

\* Authorize: a.tokenCache.Set(DpopAccessTokenPrivateKey, privateKey, expiration)
AuthStoreKey(c) ==
    /\ auth[c].pc = "stKey"
    /\ LET r == auth[c]
       IN tokenCache' = [tokenCache EXCEPT !.key =
                           TokenCacheSet([NoItem EXCEPT !.key = r.key, !.n = r.cred.n,
                                                        !.by = r.x],
                                         r.cred.n - ExpiryTrim, clock)]
    /\ auth' = [auth EXCEPT ![c] = AuthDone(auth[c], "nil")]
    /\ UNCHANGED <<env, cfg, execVars, mode, clock, nextX>>

\* Authorize has returned; the caller may prepare another request.
AuthReturn(c) ==
    /\ auth[c].pc = "done"
    /\ auth' = [auth EXCEPT ![c] = [IdleAuth EXCEPT !.prevErr = auth[c].err]]
    /\ UNCHANGED <<env, cfg, execVars, mode, clock, tokenCache, nextX>>

\* A second passes on the token cache's clock.
TickAuth ==
    /\ clock < MaxClock
    /\ clock' = clock + 1
    /\ UNCHANGED <<env, cfg, execVars, mode, tokenCache, nextX, auth>>

InitAuth ==
    /\ clock = 0
    /\ tokenCache = [tok |-> NoItem, nonce |-> NoItem, key |-> NoItem]
    /\ nextX = 0
    /\ auth = [c \in Calls |-> IdleAuth]

NextAuth ==
    \/ TickAuth
    \/ \E c \in Calls :
         \/ AuthBegin(c)
         \/ AuthStatic(c)
         \/ AuthRepeat(c)
         \/ AuthReadToken(c)
         \/ AuthReadNonce(c)
         \/ AuthReadKey(c)
         \/ AuthPrepare(c)
         \/ TokSend(c)
         \/ TokResume(c)
         \/ AuthCancel(c)
         \/ AuthAttach(c)
         \/ AuthStoreToken(c)
         \/ AuthStoreNonce(c)
         \/ AuthStoreKey(c)
         \/ AuthReturn(c)

\* The key configurations a mode reads: PrivateKeyAuth reads PrivateKey and
\* PrivateKeySigner (a configured signer stands in for the key, whatever the
\* key's text), JWKAuth EncryptionType and PrivateKeySigner.
KeyConfigs(m) ==
    IF m = "PrivateKey"
    THEN {KeyConfig("pem", FALSE, "RSA")} \cup {KeyConfig("malformed", s, "RSA") : s \in BOOLEAN}
    ELSE IF m = "JWK"
    THEN {KeyConfig("pem", s, e) : s \in BOOLEAN, e \in {"RSA", "EC"}}
    ELSE {DefaultKeyConfig}

\* Authorize of the strategies: the executor stays idle.  The clients with
\* a configured signer are drawn without retries.
InitA ==
    /\ env = Sequential
    /\ mode \in TokenModes \cup StaticModes \cup UnknownModes
    /\ cfg \in {Config(FALSE, r, b, k) :
                 r \in 0..MaxMaxRetries, b \in MaxBackoffValues, k \in KeyConfigs(mode)}
    /\ cfg.PrivateKeySigner => cfg.MaxRetries = 0
    /\ cache = [k \in Keys |-> NoResp]
    /\ freshcache = FALSE
    /\ rateLimit = NoLimit
    /\ call = [c \in Calls |-> IdleCall]
    /\ bypasses = 0
    /\ InitAuth

SpecAuth == InitA /\ [][NextAuth]_vars

\* Authorize calls generateDpopJWT for an access token.
DpopBegin(c) ==
    /\ auth[c].pc = "idle"
    /\ c \in env.callers
    /\ \E t \in Tokens, n \in NonceValues :
         auth' = [auth EXCEPT ![c] = [@ EXCEPT !.pc = "proof", !.accessToken = t,
                                               !.nonce = n]]
    /\ UNCHANGED <<env, cfg, execVars, mode, clock, tokenCache, nextX>>

\* generateDpopJWT: the claims of the proof.
DpopClaim(c) ==
    /\ auth[c].pc = "proof"
    /\ auth' = [auth EXCEPT ![c] =
                  AuthDone([@ EXCEPT !.ath = DpopAth(auth[c].accessToken)], "nil")]
    /\ UNCHANGED <<env, cfg, execVars, mode, clock, tokenCache, nextX>>

NextDpop == \E c \in Calls : DpopBegin(c) \/ DpopClaim(c) \/ AuthReturn(c)

\* generateDpopJWT applied to access tokens of up to MaxTokenLen characters.
InitDpop ==
    /\ env = Sequential
    /\ cfg = Config(FALSE, 0, 2, DefaultKeyConfig)
    /\ cache = [k \in Keys |-> NoResp]
    /\ freshcache = FALSE
    /\ rateLimit = NoLimit
    /\ call = [c \in Calls |-> IdleCall]
    /\ bypasses = 0
    /\ mode = "PrivateKey"
    /\ InitAuth

SpecDpop == InitDpop /\ [][NextDpop]_vars

\* Authorize of PrivateKeyAuth called by concurrent goroutines.
InitAConc ==
    /\ env = Concurrent
    /\ cfg \in {Config(FALSE, 0, b, DefaultKeyConfig) : b \in MaxBackoffValues}
    /\ cache = [k \in Keys |-> NoResp]
    /\ freshcache = FALSE
    /\ rateLimit = NoLimit
    /\ call = [c \in Calls |-> IdleCall]
    /\ bypasses = 0
    /\ mode = "PrivateKey"
    /\ InitAuth

\* The steps of PrivateKeyAuth.Authorize against a token endpoint that
\* answers every request, for callers that do not cancel, all within one
\* second of the token cache's clock.
NextAuthConc ==
    \E c \in Calls :
         \/ AuthBegin(c)
         \/ AuthReadToken(c)
         \/ AuthReadNonce(c)
         \/ AuthReadKey(c)
         \/ AuthPrepare(c)
         \/ TokSend(c)
         \/ AuthAttach(c)
         \/ AuthStoreToken(c)
         \/ AuthStoreNonce(c)
         \/ AuthStoreKey(c)
         \/ AuthReturn(c)

SpecAuthConc == InitAConc /\ [][NextAuthConc]_vars

\* The request executor: no Authorize call runs.
Init ==
    /\ env = Sequential
    /\ InitExec
    /\ mode = "SSWS"
    /\ InitAuth

Next ==
    \/ Tick
    \/ RefreshNext
    \/ \E c \in Calls :
         \/ Begin(c)
         \/ DoStart(c)
         \/ DoFreshRead(c)
         \/ DoFreshEvict(c)
         \/ DoHit(c)
         \/ DoGate(c)
         \/ GateResume(c)
         \/ GateCancelled(c)
         \/ DoOperation(c)
         \/ BackoffResume(c)
         \/ BackoffCancelled(c)
         \/ DoPost(c)
         \/ Cancel(c)
         \/ Return(c)

Spec == Init /\ [][Next]_vars

\* The request executor against a server that throttles, with one more retry
\* configured than Spec draws: one caller, no transport error, no
\* cancellation.
Throttled == [callers |-> {"c1"}, faults |-> FALSE, throttles |-> TRUE, cancels |-> FALSE]

InitRetry ==
    /\ env = Throttled
    /\ cfg \in {Config(e, MaxMaxRetries + 1, b, DefaultKeyConfig) :
                  e \in BOOLEAN, b \in MaxBackoffValues}
    /\ cache = [k \in Keys |-> NoResp]
    /\ freshcache = FALSE
    /\ rateLimit = NoLimit
    /\ call = [c \in Calls |-> IdleCall]
    /\ bypasses = 0
    /\ mode = "SSWS"
    /\ InitAuth

NextRetry ==
    \/ Tick
    \/ RefreshNext
    \/ \E c \in Calls :
         \/ Begin(c)
         \/ DoStart(c)
         \/ DoFreshRead(c)
         \/ DoFreshEvict(c)
         \/ DoHit(c)
         \/ DoGate(c)
         \/ GateResume(c)
         \/ DoOperation(c)
         \/ BackoffResume(c)
         \/ DoPost(c)
         \/ Return(c)

SpecRetry == InitRetry /\ [][NextRetry]_vars

\* The request executor under concurrent calls.
InitConc ==
    /\ env = Concurrent
    /\ InitExec
    /\ cfg.MaxRetries = 0
    /\ mode = "SSWS"
    /\ InitAuth

\* The steps of the executor against a server that answers every request
\* without throttling, for callers that do not cancel: no backoff wait is
\* entered and no select is left by ctx.Done().
NextConc ==
    \/ Tick
    \/ RefreshNext
    \/ \E c \in Calls :
         \/ Begin(c)
         \/ DoStart(c)
         \/ DoFreshRead(c)
         \/ DoFreshEvict(c)
         \/ DoHit(c)
         \/ DoGate(c)
         \/ GateResume(c)
         \/ DoOperation(c)
         \/ DoPost(c)
         \/ Return(c)

SpecConc == InitConc /\ [][NextConc]_vars

\* The authorizations a call's context can supply: any of ContextOAuth2 (a
\* token source, whose Token() may fail), ContextBasicAuth and
\* ContextAccessToken.
ContextKinds == {"oauth2", "basic", "token"}

Contexts ==
    {[kinds |-> k, tokErr |-> e] :
       k \in SUBSET ContextKinds, e \in BOOLEAN} \ 
    {[kinds |-> k, tokErr |-> TRUE] : k \in SUBSET (ContextKinds \ {"oauth2"})}

\* The Authorization value a context authorization puts on the request.
ContextValue(kind) == [type |-> kind, x |-> 0, n |-> 0, sp |-> FALSE]

\* http.Header.Set: the value replaces the values of the key.
HeaderSet(values, v) == <<v>>

\* prepareRequest: the walk through the context's authorizations, in the
\* order of the code: SetAuthHeader and SetBasicAuth set the header, the
\* access token is added to it.
ContextHeader(kinds) ==
    LET h1 == IF "oauth2" \in kinds THEN HeaderSet(<<>>, ContextValue("oauth2")) ELSE <<>>
        h2 == IF "basic" \in kinds THEN HeaderSet(h1, ContextValue("basic")) ELSE h1
    IN IF "token" \in kinds THEN HeaderAdd(h2, ContextValue("token")) ELSE h2

\* A generated API method: c.prepareRequest(...) builds the request, applies
\* the authorizations of the context and runs the strategy's Authorize on it.
CallPrepare(c) ==
    /\ call[c].pc = "idle"
    /\ auth[c].pc = "idle"
    /\ c \in env.callers
    /\ \E x \in Contexts :
         LET r == [auth[c] EXCEPT !.ctx = x.kinds]
         IN auth' = [auth EXCEPT ![c] =
                       IF x.tokErr THEN AuthDone(r, "token source error")
                       ELSE SwitchMode([r EXCEPT !.hdrAuth = ContextHeader(x.kinds)])]
    /\ UNCHANGED <<env, cfg, execVars, mode, clock, tokenCache, nextX>>

\* A generated API method: prepareRequest returned an error, which the method
\* returns to its caller.
CallFailed(c) ==
    /\ auth[c].pc = "done"
    /\ auth[c].err # "nil"
    /\ AuthReturn(c)

\* A generated API method: c.do(ctx, req) with the request prepareRequest
\* returned.
CallDo(c) ==
    /\ auth[c].pc = "done"
    /\ auth[c].err = "nil"
    /\ Begin(c)

\* A generated API method returns what do returned.
CallReturn(c) ==
    /\ call[c].pc = "done"
    /\ call' = [call EXCEPT ![c] = IdleCall]
    /\ auth' = [auth EXCEPT ![c] = [IdleAuth EXCEPT !.prevErr = auth[c].err]]
    /\ UNCHANGED <<env, cfg, cache, freshcache, rateLimit, bypasses, mode, clock,
                   tokenCache, nextX>>

\* One outbound call after another of a client in PrivateKey or SSWS mode:
\* each prepares its request, then executes it.
NextCall ==
    \/ Tick
    \/ RefreshNext
    \/ \E c \in Calls :
         \/ CallPrepare(c)
         \/ AuthStatic(c)
         \/ AuthReadToken(c)
         \/ AuthReadNonce(c)
         \/ AuthReadKey(c)
         \/ AuthPrepare(c)
         \/ TokSend(c)
         \/ AuthAttach(c)
         \/ AuthStoreToken(c)
         \/ AuthStoreNonce(c)
         \/ AuthStoreKey(c)
         \/ CallFailed(c)
         \/ CallDo(c)
         \/ DoStart(c)
         \/ DoFreshRead(c)
         \/ DoFreshEvict(c)
         \/ DoHit(c)
         \/ DoGate(c)
         \/ GateResume(c)
         \/ DoOperation(c)
         \/ DoPost(c)
         \/ CallReturn(c)

InitCall ==
    /\ env = Quiet
    /\ InitExec
    /\ cfg.MaxRetries = 0
    /\ mode \in {"PrivateKey", "SSWS"}
    /\ InitAuth

SpecCall == InitCall /\ [][NextCall]_vars

----------------------------------------------------------------------------
(* Properties of Authorize (SpecAuth). *)

ExchangeOver(r) == r.pc \in {"attach", "stTok", "stNonce", "stKey", "done"}

\* The token endpoint's answers in the DPoP handshake: a >=300 response with
\* invalid_dpop_proof, a >=300 response with use_dpop_nonce, a 2xx response.
Handshake == <<"idp", "udn", "ok">>

IsPrefix(s, t) == Len(s) <= Len(t) /\ \A i \in 1..Len(s) : s[i] = t[i]

\* C1: Token reuse.  An Authorize call that finds the token item stored and
\* not yet expired sends no request to the token endpoint and has the cached
\* credential among the Authorization values of the request.
C1_TokenReuse ==
    \A c \in Calls :
      auth[c].sawLive =>
        /\ auth[c].pc \in {"rdNonce", "rdKey", "done"}
        /\ Len(auth[c].reqs) = 0
        /\ auth[c].x = 0
        /\ \E i \in 1..Len(auth[c].hdrAuth) : auth[c].hdrAuth[i] = auth[c].cached

\* A call that found a live credential and returned without error.
C1_Witness ==
    \E c \in Calls :
      auth[c].sawLive /\ auth[c].pc = "done" /\ auth[c].err = "nil" /\ auth[c].cached.x > 0

\* C2: DPoP handshake.  An exchange whose token endpoint answers along
\* invalid_dpop_proof, use_dpop_nonce with nonce n, 2xx receives all three
\* answers, having sent exactly three requests: the first without a proof,
\* the second with a proof over the empty nonce, the third with a proof over
\* n; and it returns the credential with nonce n and the key that signed the
\* third proof.
C2_Handshake ==
    \A c \in Calls :
      LET r == auth[c]
      IN (ExchangeOver(r) /\ r.hist # <<>> /\ IsPrefix(r.hist, Handshake)) =>
           /\ r.hist = Handshake
           /\ Len(r.reqs) = 3
           /\ r.reqs[1] = NoProof
           /\ r.reqs[2].signed /\ r.reqs[2].nonce = ""
           /\ r.reqs[3].signed /\ r.reqs[3].nonce = r.lastNonceHdr
           /\ r.err # "panic"
           /\ r.cred.x = r.x
           /\ r.nonce = r.lastNonceHdr
           /\ r.key = r.reqs[3].key

\* C8: Expiry precision.  Counting from the store of a credential with
\* expires_in N, a call made N - 2 seconds or more later does not take the
\* cached-token branch, and a call made earlier does.
C8_ExpiryPrecision ==
    \A c \in Calls :
      /\ auth[c].claimed = "expired" => ~auth[c].hit
      /\ auth[c].claimed = "live" => auth[c].hit

\* C12: Idempotence of static auth.  However many times Authorize of
\* SSWSAuth or BearerAuth has run on a pending request, the request has the
\* single Authorization value "<scheme> <token>".
C12_StaticIdempotent ==
    \A c \in Calls :
      (mode \in StaticModes /\ auth[c].pc = "done") =>
        auth[c].hdrAuth = <<StaticValue(mode)>>

\* The answers of a token endpoint that asks every proof-carrying request for
\* another nonce.
NonceForEver(h) ==
    /\ Len(h) >= 1
    /\ h[1] = "idp"
    /\ \A i \in 2..Len(h) : h[i] = "udn"

\* C13: The DPoP handshake is bounded.  Against a token endpoint that answers
\* every proof-carrying request with use_dpop_nonce, an exchange sends at most
\* the proof-less request and MaxRetries + 1 proof-carrying ones.
C13_HandshakeBounded ==
    \A c \in Calls :
      NonceForEver(auth[c].hist) => Len(auth[c].reqs) <= cfg.MaxRetries + 2

\* C14: The token exchange respects cancellation.  Once the caller's signal
\* has fired while the exchange was suspended, the exchange sends no further
\* token request, and the call ends with the cancellation error.
C14_ExchangeCancels ==
    \A c \in Calls :
      auth[c].cancelled =>
        /\ ~auth[c].sentAfterCancel
        /\ auth[c].pc \in {"tokWait", "send", "done"}
        /\ auth[c].pc = "done" => auth[c].err = "ctx"

\* C15: Token-cache consistency.  The nonce and the key an Authorize call
\* reads from the token cache on a hit were stored by the exchange that
\* stored the credential it read.
C15_CacheConsistent ==
    \A c \in Calls :
      auth[c].hit =>
        /\ auth[c].srcNonce \in {0, auth[c].cred.x}
        /\ auth[c].srcKey \in {0, auth[c].cred.x}

\* The auth-state errors of Authorize.
AuthStateErrors ==
    {"Empty access token", "Unidentified access token",
     "Using Dpop but signing key not found"}

\* C16: Auth-state errors are not sticky.  A call that failed with an
\* auth-state error has stored nothing in the token cache, and the caller's
\* next Authorize does not take the cached-token branch: it starts a new
\* exchange.
C16_NotSticky ==
    \A c \in Calls :
      /\ (auth[c].pc = "done" /\ auth[c].err \in AuthStateErrors /\ auth[c].x > 0) =>
           \A k \in DOMAIN tokenCache : tokenCache[k].by # auth[c].x
      /\ (auth[c].prevErr \in AuthStateErrors /\ auth[c].pc \notin {"idle", "rdTok"}) =>
           ~auth[c].hit

\* C21: Hit/miss header parity for DPoP.  An Authorize that takes the
\* cached-token branch for a credential of token type DPoP and returns without
\* error has put a Dpop proof and the isDPoP marker on the request, as the
\* call that stored the credential did: a DPoP-bound credential is never
\* attached without a proof.
C21_HitParity ==
    \A c \in Calls :
      (auth[c].pc = "done" /\ auth[c].hit /\ auth[c].err = "nil"
         /\ auth[c].cred.type = "DPoP") =>
        auth[c].hdrDpop.signed /\ auth[c].hdrUA

\* The nonce of the last request of an exchange: the Dpop-Nonce of the last
\* use_dpop_nonce response, empty when there was none.
FinalNonce(r) ==
    IF \E i \in 1..Len(r.hist) : r.hist[i] = "udn" THEN r.lastNonceHdr ELSE ""

\* C22: Concurrent cache misses are independent.  A call that missed the
\* token cache and attached headers carries the credential of its own
\* exchange and, for a DPoP credential, a proof signed by the last key its
\* own exchange generated, over its own exchange's last nonce and its own
\* token, whatever other calls wrote to the token cache meanwhile.
C22_MissesIndependent ==
    \A c \in Calls :
      (/\ ~auth[c].hit /\ auth[c].x > 0 /\ auth[c].err = "nil"
       /\ auth[c].pc \in {"stTok", "stNonce", "stKey", "done"}) =>
        /\ auth[c].hdrAuth = <<auth[c].cred>>
        /\ auth[c].cred.x = auth[c].x
        /\ IF auth[c].cred.type = "DPoP"
           THEN /\ auth[c].hdrDpop.signed
                /\ auth[c].hdrDpop.key = [x |-> auth[c].x, round |-> auth[c].round]
                /\ auth[c].hdrDpop.nonce = FinalNonce(auth[c])
                /\ auth[c].hdrDpop.ath = auth[c].x
           ELSE auth[c].hdrDpop = NoProof

\* Two calls missed the cache together, both got DPoP credentials through
\* handshakes with different nonces, and the first has returned after the
\* second's values were written over its own in the token cache.
C22_Witness ==
    /\ auth["c1"].pc = "done" /\ auth["c1"].err = "nil" /\ ~auth["c1"].hit
    /\ auth["c2"].pc = "done" /\ auth["c2"].err = "nil" /\ ~auth["c2"].hit
    /\ auth["c1"].x = 1 /\ auth["c2"].x = 2
    /\ auth["c1"].cred.type = "DPoP" /\ auth["c2"].cred.type = "DPoP"
    /\ auth["c1"].hdrDpop.nonce # auth["c2"].hdrDpop.nonce
    /\ tokenCache.tok.by = 2 /\ tokenCache.nonce.by = 2 /\ tokenCache.key.by = 2

\* The configuration has an error: an unknown mode, a private key that
\* PrivateKeyAuth has to parse and cannot, a JWK encryption type other than
\* RSA.
ConfigError ==
    \/ mode \notin TokenModes \cup StaticModes
    \/ mode = "PrivateKey" /\ cfg.PrivateKey # "pem" /\ ~cfg.PrivateKeySigner
    \/ mode = "JWK" /\ cfg.EncryptionType # "RSA"

ConfigErrors ==
    {"unknown authorization mode", "invalid private key", "unknown encryptionType"}

\* C17: Configuration errors are fatal and immediate.  With an unknown mode,
\* a malformed private key or a JWK encryption type that is not RSA, every
\* Authorize ends with the configuration's error, no token exchange is
\* started and no token request is sent or retried, and the token cache, the
\* response cache and the rate-limit state stay as they were.
C17_ConfigFatal ==
    ConfigError =>
      /\ nextX = 0
      /\ tokenCache = [tok |-> NoItem, nonce |-> NoItem, key |-> NoItem]
      /\ cache = [k \in Keys |-> NoResp]
      /\ rateLimit = NoLimit
      /\ \A c \in Calls :
           /\ auth[c].pc \in {"idle", "rdTok", "signer", "done"}
           /\ auth[c].reqs = <<>>
           /\ auth[c].retryCount = 0
           /\ auth[c].hdrAuth = <<>>
           /\ auth[c].pc = "done" => auth[c].err \in ConfigErrors
           /\ auth[c].prevErr \in ConfigErrors \cup {"nil"}

\* A second request of a client with a malformed private key has failed as
\* the first did.
C17_Witness ==
    /\ mode = "PrivateKey" /\ cfg.PrivateKey = "malformed" /\ ~cfg.PrivateKeySigner
    /\ auth["c1"].prevErr = "invalid private key"
    /\ auth["c1"].pc = "done"
    /\ auth["c1"].err = "invalid private key"

\* The ath claim the DPoP specification asks for: the unpadded URL-safe
\* base64 of the SHA-256 of the token's bytes.
AthOfRawBytes(accessToken) == RawURLEncoding(Sum256(RawBytes(accessToken)))

\* C20: For every access token passed to generateDpopJWT the ath claim is
\* the unpadded URL-safe base64 of SHA-256 over the token's raw bytes, and
\* the claim is absent exactly when the token is empty.
C20_AthRawBytes ==
    \A c \in Calls :
      auth[c].pc = "done" =>
        /\ auth[c].ath = <<>> <=> auth[c].accessToken = <<>>
        /\ auth[c].accessToken # <<>> => auth[c].ath = AthOfRawBytes(auth[c].accessToken)

----------------------------------------------------------------------------
(* Properties of the request executor (Spec, SpecConc). *)

\* C3: Rate-limit gating.  A call that read, at the gate, a RateLimit with
\* Remaining = 0 while rate limiting is enabled dispatches only once the
\* reset instant of that RateLimit has come.
C3_GateHolds ==
    [][\A c \in Calls :
         (call[c].sawZero /\ call'[c].dispatches > call[c].dispatches)
           => call[c].epochIn = 0]_vars

\* A call that found Remaining = 0 with the reset instant ahead, and has
\* dispatched since.
C3_Witness ==
    \E c \in Calls :
      call[c].sawZero /\ call[c].gateEpoch > 0 /\ call[c].dispatches >= 1

\* C4: Cancellation.  A call whose context is cancelled while it is parked at
\* the gate or in a backoff wait leaves the wait by returning the
\* cancellation error and makes no dispatch after the signal; parked at the
\* gate, it has made none at all.
C4_CancelAborts ==
    \A c \in Calls :
      call[c].cancelledInWait =>
        /\ call[c].dispatches = call[c].dispAtCancel
        /\ \/ Waiting(call[c]) /\ call[c].wake = "ctx"
           \/ call[c].pc = "done" /\ call[c].err = "ctx"
        /\ call[c].waitKind = "gate" => call[c].dispatches = 0

\* A call cancelled in a backoff wait that has returned.
C4_Witness ==
    \E c \in Calls :
      /\ call[c].cancelledInWait /\ call[c].waitKind = "backoff"
      /\ call[c].pc = "done" /\ call[c].dispatches >= 1

\* C5: Bounded retries.  A call that is not cancelled makes at most
\* MaxRetries + 1 dispatches, whatever the transport returns.
C5_BoundedRetries ==
    \A c \in Calls :
      ~call[c].cancelled => call[c].dispatches <= cfg.MaxRetries + 1

\* C6: Retry exhaustion on 429.  A call whose every dispatch returns a
\* well-formed 429 makes at most MaxRetries + 1 dispatches and, unless
\* cancelled, returns after exactly MaxRetries + 1 with the too-many-requests
\* error.
C6_Exhaustion429 ==
    \A c \in Calls :
      (call[c].only429 /\ call[c].dispatches >= 1) =>
        /\ call[c].dispatches <= cfg.MaxRetries + 1
        /\ (call[c].pc = "done" /\ ~call[c].cancelled) =>
             /\ call[c].dispatches = cfg.MaxRetries + 1
             /\ call[c].err = "too many requests"

\* A call that met 429 on each of two or more dispatches and has returned.
C6_Witness ==
    \E c \in Calls :
      /\ call[c].only429 /\ call[c].pc = "done" /\ ~call[c].cancelled
      /\ call[c].dispatches >= 2

\* C7: 429 backoff.  The wait that follows a well-formed 429 lasts
\* min(X-Rate-Limit-Reset - Date + 1, MaxBackoff) seconds: the seconds
\* waited and the seconds left add up to it, and the timer wakes the call
\* only when none is left.
C7_BackoffDelay ==
    \A c \in Calls :
      (call[c].pc = "boWait" /\ call[c].last429 # NoResp) =>
        LET d == Min(call[c].last429.reset - call[c].last429.date + 1, cfg.MaxBackoff)
        IN /\ call[c].backoffDuration = d
           /\ call[c].timer + call[c].waited = d
           /\ call[c].wake = "timer" => call[c].timer <= 0
           /\ call[c].wake = "none" => call[c].timer > 0

\* A wait cut down to MaxBackoff that the timer has ended.
C7_Witness ==
    \E c \in Calls :
      /\ call[c].pc = "boWait" /\ call[c].last429 # NoResp
      /\ call[c].last429.reset - call[c].last429.date + 1 > cfg.MaxBackoff
      /\ call[c].wake = "timer" /\ call[c].waited = cfg.MaxBackoff

C10_HitBypass ==
    /\ [](\A c \in Calls :
            (call[c].inCache /\ call[c].pc \notin {"start", "fresh", "evict"}) =>
              /\ call[c].pc \in {"hit", "done"}
              /\ call[c].dispatches = 0
              /\ ~call[c].readLimit
              /\ ~call[c].session
              /\ call[c].timer = 0 /\ call[c].waited = 0
              /\ call[c].pc = "done" => call[c].err = "nil")
    /\ [][\A c \in Calls :
            (call[c].pc = "hit" /\ call'[c].pc # "hit") =>
              /\ call'[c].pc = "done"
              /\ call'[c].resp = CacheGet(cache, Key(c))
              /\ cache' = cache
              /\ rateLimit' = rateLimit]_vars

\* A call that returned a cached response while the recorded RateLimit had
\* Remaining = 0 and its reset instant ahead.
C10_Witness ==
    \E c \in Calls :
      /\ call[c].inCache /\ call[c].pc = "done" /\ call[c].resp.status = 200
      /\ cfg.Enable /\ MustWait(rateLimit) /\ rateLimit.epochIn > 0

\* C11: Force refresh is one-shot.  Of the calls that run after a
\* RefreshNext, concurrent ones included, at most one takes the refresh
\* branch (evicts its key and goes on as a miss).
C11_RefreshOneShot == bypasses <= 1

\* The error of a 429 whose header `bad` does not parse.
HeaderError(bad) ==
    IF bad = "date" THEN "date header is missing or invalid"
    ELSE "X-Rate-Limit-Reset header is missing or invalid"

\* C18: Malformed rate-limit headers on a 429 are permanent.  Once a dispatch
\* of a call has returned a 429 (received whole) whose Date or
\* X-Rate-Limit-Reset does not parse, the call has ended with that header's
\* error and without a response: it is never again at a dispatch or in a
\* wait, however many retries remain.
C18_BadHeadersPermanent ==
    \A c \in Calls :
      call[c].bad429 # "none" =>
        /\ call[c].pc = "done"
        /\ call[c].err = HeaderError(call[c].bad429)
        /\ call[c].resp = NoResp

\* A call whose first 429 was well formed and retried and whose second 429
\* has no parsable X-Rate-Limit-Reset, with a retry still allowed.
C18_Witness ==
    /\ call["c1"].bad429 = "reset"
    /\ call["c1"].dispatches = 2
    /\ call["c1"].retryCount = 1
    /\ call["c1"].retryCount <= cfg.MaxRetries
    /\ ~call["c1"].cancelled

\* The fields of a RateLimit the code keeps.
LimitState(l) == [set |-> l.set, Limit |-> l.Limit, Remaining |-> l.Remaining,
                  Reset |-> l.Reset]

\* C19: Non-429 HTTP errors are not retried.  From the dispatch that returned
\* a response with a status of 300 or more (other than 429) up to the return
\* to the caller, the call dispatches nothing more, keeps that response with
\* no error, and neither the response cache nor the rate-limit state changes.
C19_ErrorsNotRetried ==
    [][\A c \in Calls :
         (/\ call[c].pc \in {"post", "done"}
          /\ call[c].resp.kind = "resp"
          /\ call[c].resp.status >= 300
          /\ call'[c].pc # "idle")
         => /\ call'[c].pc \in {"post", "done"}
            /\ call[c].pc = "done" => call'[c].pc = "done"
            /\ call'[c].dispatches = call[c].dispatches
            /\ call'[c].resp = call[c].resp
            /\ call'[c].err = "nil"
            /\ cache' = cache
            /\ LimitState(rateLimit') = LimitState(rateLimit)]_vars

\* A GET with rate limiting enabled whose one dispatch returned a 404 with
\* parsable rate-limit headers, returned to the caller while the client has
\* no rate-limit state and nothing cached under the request's key.
C19_Witness ==
    /\ call["c1"].pc = "done"
    /\ call["c1"].method = "GET"
    /\ call["c1"].resp.status = 404
    /\ call["c1"].resp.hdrOK
    /\ call["c1"].dispatches = 1
    /\ call["c1"].err = "nil"
    /\ cfg.Enable
    /\ rateLimit = NoLimit
    /\ ~CacheHas(cache, Key("c1"))

\* The most by which the delay X-Rate-Limit-Reset - Date + 1 of a response
\* exceeds the time from its receipt to its reset instant: the added second
\* and the lag of the Date header.
GateSlack == 1 + (CHOOSE l \in DateLags : \A k \in DateLags : k <= l)

\* C23: The gate blocks until the tracked reset time and no longer.  A call
\* parked at the gate has no more left to wait than the time to the reset
\* instant of the RateLimit it read (with the slack of the delay formula): a
\* call that arrives after that instant is not held for the full interval
\* again.
C23_GateUntilReset ==
    \A c \in Calls :
      (call[c].pc = "gateWait" /\ call[c].wake = "none") =>
        call[c].timer <= call[c].epochIn + GateSlack

\* C24: No wait of the executor exceeds the configured maximum backoff,
\* neither the 429 backoff nor the rate-limit gate.
C24_WaitsClamped ==
    \A c \in Calls :
      Waiting(call[c]) => call[c].timer <= cfg.MaxBackoff

\* C25: RateLimitState is most-recent-wins.  With rate limiting enabled, when
\* do returns a 2xx GET response of a dispatch, the RateLimit is the one
\* derived from that response; no such response leaves an older RateLimit in
\* place.
C25_MostRecentWins ==
    [][\A c \in Calls :
         (/\ call[c].pc = "post" /\ call'[c].pc = "done"
          /\ cfg.Enable
          /\ Cacheable(call[c].method, call[c].resp))
         => IF parseLimitHeaders(call[c].resp).ok
            THEN LimitState(rateLimit') = LimitState(parseLimitHeaders(call[c].resp).v)
            ELSE ~rateLimit.set \/ LimitState(rateLimit') # LimitState(rateLimit)]_vars

\* C26: Response-cache invariant.  Every entry of the response cache is under
\* the key of a GET request and holds a 2xx response, and an entry appears or
\* changes only in the step in which do stores the 2xx response that a GET
\* call's own dispatch returned: non-GET calls, other responses, failed calls
\* and cache hits add none.
C26_CacheInvariant ==
    /\ [](\A k \in Keys :
            CacheHas(cache, k) =>
              /\ k = CreateCacheKey("GET", k[2])
              /\ cache[k].status >= 200 /\ cache[k].status <= 299)
    /\ [][\A k \in Keys :
            (cache'[k] # cache[k] /\ CacheHas(cache', k)) =>
              \E c \in Calls :
                /\ call[c].pc = "post" /\ call'[c].pc = "done"
                /\ Key(c) = k /\ call[c].method = "GET"
                /\ call[c].path = "miss" /\ call[c].dispatches >= 1
                /\ call[c].resp.status >= 200 /\ call[c].resp.status <= 299
                /\ call'[c].err = "nil"
                /\ cache'[k] = call[c].resp]_vars

\* A GET call whose second dispatch returned a 2xx response has returned, and
\* the cache holds that response under the call's key.
C26_Witness ==
    /\ call["c1"].pc = "done" /\ call["c1"].method = "GET"
    /\ call["c1"].path = "miss" /\ call["c1"].dispatches = 2
    /\ call["c1"].err = "nil" /\ call["c1"].resp.status = 200
    /\ CacheGet(cache, Key("c1")) = call["c1"].resp

\* C34: ExternalAssertion needs no signer.  In JWT mode an Authorize that
\* missed the token cache and whose first token request was answered 2xx
\* with a credential has returned nil, the request carries that credential
\* as its one Authorization value, and the token cache holds the credential,
\* an empty nonce and no signing key, all stored by this exchange.
C34_ExternalAssertion ==
    \A c \in Calls :
      LET r == auth[c]
      IN (mode = "JWT" /\ r.pc = "done" /\ ~r.hit /\ r.hist = <<"ok">>) =>
           /\ r.err = "nil"
           /\ r.cred # NoToken
           /\ r.hdrAuth = <<r.cred>>
           /\ tokenCache.tok.found /\ tokenCache.tok.cred = r.cred
           /\ tokenCache.nonce.found /\ tokenCache.nonce.nonce = ""
           /\ tokenCache.key.found /\ tokenCache.key.key = NoKey
           /\ \A k \in {"tok", "nonce", "key"} : tokenCache[k].by = r.x

\* The stage of the exchange that sent a token request with the proof p: 0
\* for the proof-less request, otherwise the count of keys generated so far.
StageOf(p) == IF p.signed THEN p.key.round ELSE 0

\* C29: Token-exchange retry policy.  Within one stage of the exchange a
\* token request is sent again only after a transport error, a stage sends
\* at most MaxRetries + 1 requests, and every wait between two sends is the
\* same constant, the configured maxBackoff.  After a >=300 response the
\* stage sends nothing more: the next request, if any, is the first of the
\* next stage of the DPoP handshake, entered on invalid_dpop_proof from the
\* proof-less stage and on use_dpop_nonce from a proof-carrying one.
C29_RetryPolicy ==
    \A c \in Calls :
      LET r == auth[c]
          n == Len(r.reqs)
          stage(i) == StageOf(r.reqs[i])
      IN /\ Len(r.hist) = n
         /\ \A k \in 0..n :
              Cardinality({i \in 1..n : stage(i) = k}) <= cfg.MaxRetries + 1
         /\ \A i \in 1..(n - 1) :
              IF r.hist[i] = "neterr" THEN stage(i + 1) = stage(i)
              ELSE /\ stage(i + 1) = stage(i) + 1
                   /\ r.hist[i] = (IF stage(i) = 0 THEN "idp" ELSE "udn")
         /\ Len(r.delays) = Cardinality({i \in 1..n : r.hist[i] = "neterr"})
                             - (IF r.pc = "done" /\ r.err = "transport error"
                                THEN 1 ELSE 0)
         /\ \A i \in 1..Len(r.delays) : r.delays[i] = cfg.MaxBackoff

\* The proof-less stage sent its request again after a transport error and
\* was answered invalid_dpop_proof; the proof-carrying stage met a transport
\* error and waits to send again.
C29_Witness ==
    /\ cfg.MaxRetries = 1
    /\ auth["c1"].hist = <<"neterr", "idp", "neterr">>
    /\ auth["c1"].pc = "tokWait"

\* The i-th response of the call r is a >=300 response without the marker
\* that continues the stage it answers: invalid_dpop_proof for the proof-less
\* stage, use_dpop_nonce for a proof-carrying one.
TerminalResponse(r, i) ==
    /\ r.hist[i] \in {"idp", "udn", "other"}
    /\ r.hist[i] # (IF StageOf(r.reqs[i]) = 0 THEN "idp" ELSE "udn")

\* C30: Terminal failure of the token exchange.  A >=300 response without the
\* marker that continues its stage is the last response of the exchange: no
\* further token request is sent, Authorize has failed (with "Empty access
\* token" where the signer was passed), the request carries no Authorization,
\* Dpop or DPoP user-agent header, no credential was returned and no item of
\* the token cache was stored by this exchange.
C30_TerminalFailure ==
    \A c \in Calls :
      LET r == auth[c]
      IN \A i \in 1..Len(r.hist) :
           TerminalResponse(r, i) =>
             /\ i = Len(r.hist) /\ Len(r.reqs) = i
             /\ r.pc = "done"
             /\ r.err # "nil"
             /\ SignerPassed(mode) => r.err = "Empty access token"
             /\ r.hdrAuth = <<>> /\ r.hdrDpop = NoProof /\ ~r.hdrUA
             /\ r.cred = NoToken
             /\ \A k \in {"tok", "nonce", "key"} :
                  ~(tokenCache[k].found /\ tokenCache[k].by = r.x)

\* A handshake that reached its nonce-carrying stage was answered there with
\* a >=300 response naming invalid_dpop_proof, and Authorize returned its
\* error.
C30_Witness ==
    /\ auth["c1"].hist = <<"idp", "udn", "idp">>
    /\ auth["c1"].pc = "done"
    /\ auth["c1"].err = "Empty access token"

\* C28: Non-network transport errors are permanent.  Once a dispatch of a
\* call has failed with a transport error that is not io.EOF, the call has
\* returned that error, without a response: it is never again at a dispatch
\* or in a backoff wait, whatever MaxRetries is.
C28_TransportPermanent ==
    \A c \in Calls :
      call[c].perr =>
        /\ call[c].pc = "done"
        /\ call[c].err = "transport error"
        /\ call[c].resp = NoResp
        /\ call[c].timer = 0 /\ call[c].wake = "none"

\* The first dispatch of a call failed with such an error while a retry was
\* allowed.
C28_Witness ==
    /\ call["c1"].perr
    /\ call["c1"].dispatches = 1
    /\ call["c1"].retryCount = 0
    /\ cfg.MaxRetries >= 1
    /\ ~call["c1"].cancelled

\* The RateLimit values parseLimitHeaders builds from one response that do
\* records.
RecordableLimits ==
    {LimitState(parseLimitHeaders(o.resp).v) :
       o \in {x \in Responses : x.resp.hdrOK /\ Cacheable("GET", x.resp)}}

\* C33: The rate-limit gate is not atomic with dispatch, and the lock only
\* keeps each read whole.  The RateLimit a gate reads under the lock is
\* either absent or the (limit, remaining, reset) of one response, never a
\* mix of two; and a call reads it at its gate only, before its dispatch,
\* so nothing ties the read to the dispatches of other calls.
C33_TripleOfOneResponse ==
    /\ LimitState(rateLimit) \in {LimitState(NoLimit)} \cup RecordableLimits
    /\ \A c \in Calls :
         (call[c].sawQuota \/ call[c].sawZero) =>
           /\ cfg.Enable /\ call[c].readLimit /\ call[c].path = "miss"
           /\ ~(call[c].sawQuota /\ call[c].sawZero)

\* The interleaving of the claim: the recorded quota is one remaining
\* request, both calls read it at their gates with Remaining > 0, and both
\* have dispatched before either records a new RateLimit.
C33_Witness ==
    /\ rateLimit.set /\ rateLimit.Remaining = 1
    /\ \A c \in Calls :
         /\ call[c].pc = "post"
         /\ call[c].sawQuota
         /\ call[c].dispatches = 1

\* C31: Retry signalling headers.  A request about to be dispatched, or
\* parked before its next dispatch, carries neither header before the first
\* 429 of its call; after k counted 429 responses it carries exactly one
\* X-Okta-Retry-Count, with the value k, and exactly one X-Okta-Retry-For,
\* with the X-Okta-Request-Id of the last 429 response received whole.
C31_RetryHeaders ==
    \A c \in Calls :
      LET r == call[c]
      IN r.pc \in {"op", "boWait"} =>
           IF r.last429Id = 0
           THEN r.hdrRetryCount = <<>> /\ r.hdrRetryFor = <<>>
           ELSE /\ r.hdrRetryCount = <<r.retryCount>>
                /\ r.hdrRetryFor = <<r.last429Id>>

----------------------------------------------------------------------------
(* Properties of a whole outbound call (SpecCall). *)

\* The Authorization value the configured mode gives the request of a call
\* whose Authorize returned nil.
ConfiguredValue(r) == IF mode \in StaticModes THEN StaticValue(mode) ELSE r.cred

\* C32: The configured authorization mode overrides the authorization of
\* the call context.  A request prepared without error whose context
\* supplied an authorization carries one Authorization value, that of the
\* configured mode.
C32_ModeOverridesContext ==
    \A c \in Calls :
      (auth[c].pc = "done" /\ auth[c].err = "nil" /\ auth[c].ctx # {}) =>
        auth[c].hdrAuth = <<ConfiguredValue(auth[c])>>

\* C27: Per-call ordering.  The response-cache check and the rate-limit gate
\* come before the authorization strategy: a call that has not passed the
\* gate, and a call answered from the response cache, has run no Authorize
\* and sent no token-endpoint request.
C27_GateBeforeAuthorize ==
    \A c \in Calls :
      (\/ call[c].pc \in {"start", "fresh", "evict", "hit", "gate", "gateWait"}
       \/ call[c].pc = "done" /\ call[c].path = "hit") =>
        /\ auth[c].runs = 0
        /\ auth[c].reqs = <<>>

====
